---- MODULE Spec2Model ----
(***************************************************************************)
(* Model of the AWS Toolkit MCP server singleton (AwsMcpServer): listener  *)
(* lifecycle (start / close), connection tracking and the HTTP request     *)
(* handler with its tool dispatch.                                         *)
(*                                                                         *)
(* The Node http.Server objects created by start() are the "listeners";    *)
(* each start() that passes its guard creates a fresh one and overwrites   *)
(* this.httpServer.  Bind and stop confirmations are events delivered by   *)
(* the transport later, so they are separate actions.                      *)
(*                                                                         *)
(* The transport is the environment: a bind may fail or succeed, and the   *)
(* callback of httpServer.close may carry an error, as its signature       *)
(* allows.  A listener stops listening as soon as close() is called on it. *)
(* 'error' events of a listener that is already bound are not modelled.    *)
(* The host (vscode commands and notifications) is the environment too:    *)
(* each call made to it succeeds or throws.                                *)
(***************************************************************************)
EXTENDS Integers, Sequences, FiniteSets

\* ---------------------------------------------------------------- bounds
MaxServers == 2     \* http.Server objects created over one run
MaxConns == 1       \* connections accepted over one run
MaxTimers == 1      \* delayed follow-ups pending at one time

\* ------------------------------------------------------------- constants
DefaultPort == 3000         \* private port: number = 3000
AltPort == 3001             \* another port a caller may pass
EphemeralPort == 49152      \* what the OS hands out for a bind on port 0
Undefined == -1             \* an omitted argument / undefined field

PortArgs == {Undefined, 0, DefaultPort, AltPort}
TransportErrors == {"EADDRINUSE", "EACCES"}     \* bind failures
StopErrors == {<<"ERR_SERVER_NOT_RUNNING">>}    \* err of the close callback
ServerIds == 1..MaxServers
NoErr == <<>>

\* HTTP requests a client may send.  A body is either not JSON or a decoded
\* envelope; `message` is <<>> when arguments.message is absent.
Methods == {"OPTIONS", "GET", "POST"}
ToolNames == {"load_chat_session", "no_such_tool"}
MessageArgs == {<<>>, <<"">>, <<"hi">>}
NoBody == [json |-> FALSE, method |-> "", name |-> "", message |-> <<>>]
Bodies ==
    {NoBody, [json |-> TRUE, method |-> "tools/list", name |-> "", message |-> <<>>]}
    \cup {[json |-> TRUE, method |-> "tools/call", name |-> n, message |-> m] :
             n \in ToolNames, m \in MessageArgs}

\* What the host does when asked: is the Amazon Q extension installed, do
\* openChat / sendToChat succeed, do the first and second notification
\* (fallback) calls of one run succeed.
HostOutcomes == [ext : BOOLEAN, open : BOOLEAN, send : BOOLEAN,
                 fb1 : BOOLEAN, fb2 : BOOLEAN]
HostFine == [ext |-> TRUE, open |-> TRUE, send |-> TRUE, fb1 |-> TRUE, fb2 |-> TRUE]

\* The host behaviours a tool call can tell apart: outcomes of calls that
\* are never made are fixed to success.
CallHosts ==
    {h \in HostOutcomes :
        /\ h.send
        /\ (h.ext /\ h.open) => (h.fb1 /\ h.fb2)
        /\ (h.ext /\ ~h.open) => h.fb2
        /\ ~h.ext => (h.open /\ (h.fb1 => h.fb2))}
\* The host behaviours a delayed follow-up can tell apart.
TimerHosts ==
    {h \in HostOutcomes : h.ext /\ h.open /\ h.fb2 /\ (h.send => h.fb1)}

\* The requests sent: a body only with POST, a host behaviour only with a
\* call of a registered tool; every message against the host that shows it
\* in a notification at once, every host behaviour against one message.
RequestInputs ==
    {[method |-> m, body |-> NoBody, h |-> HostFine] : m \in Methods}
    \cup {[method |-> "POST", body |-> b, h |-> HostFine] :
             b \in {c \in Bodies : c.name # "load_chat_session"}}
    \cup {[method |-> "POST", body |-> b, h |-> h] :
             b \in {c \in Bodies : c.name = "load_chat_session"},
             h \in {g \in CallHosts : ~g.ext /\ g.fb1}}
    \cup {[method |-> "POST", body |-> b, h |-> h] :
             b \in {c \in Bodies : c.name = "load_chat_session"
                                    /\ c.message = <<"hi">>},
             h \in CallHosts}

VARIABLES
    httpServer,     \* this.httpServer: 0 (undefined) or the id of a listener
    srv,            \* the http.Server objects ever created, by id
    connections,    \* this.connections: Socket[]
    _closed,        \* this._closed
    port,           \* this.port
    timers,         \* pending setTimeout callbacks of loadChatSession, by message
    last,           \* the most recent call or event and what it produced
    host            \* activation.ts: mcpServer, the registered commands and
                    \* the position of the command in flight

vars == <<httpServer, srv, connections, _closed, port, timers, last, host>>

\* activation.ts before activate(): `let mcpServer` is undefined and no
\* command is registered.  cmd is the command in flight or finished last,
\* pc its position (idle, awaitStart, awaitClose, closed), wait the listener
\* whose promise it awaits, note the message it showed, err the error in
\* that message, retry whether the warning with 'Retry' is on screen.
NoHost == [mcpServer |-> FALSE, registered |-> FALSE, cmd |-> "none",
           pc |-> "idle", wait |-> 0, note |-> "", err |-> NoErr,
           retry |-> FALSE]

\* An http.Server that has not been created yet.
\* afterClose records whether a close() had already succeeded when the
\* start() that created the listener was called.
\* lport is the port asked for while the bind is pending, the port bound
\* while listening, and Undefined once the listener has gone.
NoServer == [state |-> "none", lport |-> Undefined, startP |-> "none",
             afterClose |-> FALSE]

\* res.setHeader(...) x 3 at the top of the request listener
CorsHeaders == {<<"Access-Control-Allow-Origin", "*">>,
                <<"Access-Control-Allow-Methods", "POST, OPTIONS">>,
                <<"Access-Control-Allow-Headers", "Content-Type">>}

NoReq == [method |-> "", body |-> NoBody, h |-> HostFine]
NoRes == [status |-> 0, cors |-> {}, bodyRead |-> FALSE, error |-> "",
          message |-> <<>>, result |-> <<>>, calls |-> <<>>]

Event(op, arg, id, outcome, err) ==
    [op |-> op, arg |-> arg, srv |-> id, outcome |-> outcome, err |-> err,
     req |-> NoReq, res |-> NoRes]

\* class McpServerError: super(`MCP Server: ${message}`)
McpServerError(message) == <<"MCP Server: ">> \o message

\* http.Server.listening of listener i
listening(i) == srv[i].state = "listening"

\* http.Server.address(): an object with the bound port while listening,
\* null otherwise (Undefined here).
address(i) == IF listening(i) THEN srv[i].lport ELSE Undefined

\* getAddress(): this.httpServer?.address()
getAddress == IF httpServer = 0 THEN Undefined ELSE address(httpServer)

\* getPort()
getPort == IF getAddress # Undefined THEN getAddress ELSE port

\* get closed()
closed == _closed

\* The id the next created http.Server gets.
NextId == Cardinality({i \in ServerIds : srv[i].state # "none"}) + 1

Init ==
    /\ httpServer = 0
    /\ srv = [i \in ServerIds |-> NoServer]
    /\ connections = <<>>
    /\ _closed = FALSE
    /\ port = DefaultPort
    /\ timers = <<>>
    /\ last = Event("init", Undefined, 0, "none", NoErr)
    /\ host = NoHost

\* ------------------------------------------------------------------ start
\* if (this.httpServer?.listening) throw ...
startRejects == httpServer # 0 /\ listening(httpServer)

\* this.port = port || this.port    (undefined and 0 are both falsy)
startPort(p) == IF p = Undefined \/ p = 0 THEN port ELSE p

\* The body of start() past its guard: a fresh http.Server is created,
\* stored in this.httpServer and asked to listen on this.port.
startListen(p) ==
    /\ NextId <= MaxServers
    /\ port' = startPort(p)
    /\ httpServer' = NextId
    /\ srv' = [srv EXCEPT ![NextId] =
                   [state |-> "binding", lport |-> port', startP |-> "pending",
                    afterClose |-> _closed]]
    /\ last' = Event("start", p, NextId, "pending", NoErr)
    /\ UNCHANGED <<connections, _closed, timers>>

\* A variant of start() that stores the port before testing the guard.
start_portFirst(p) ==
    IF startRejects
    THEN /\ port' = startPort(p)
         /\ last' = Event("start", p, 0, "threw",
                          McpServerError(<<"Server already started">>))
         /\ UNCHANGED <<httpServer, srv, connections, _closed, timers>>
    ELSE startListen(p)

start(p) ==
    IF startRejects
    THEN /\ last' = Event("start", p, 0, "threw",
                          McpServerError(<<"Server already started">>))
         /\ UNCHANGED <<httpServer, srv, connections, _closed, port, timers>>
    ELSE startListen(p)

\* The port a listener ends up on: the OS picks one for a request of 0.
BoundPortFor(reqPort) == IF reqPort = 0 THEN EphemeralPort ELSE reqPort

\* this.httpServer.on('listening', ...) of the listener i: the bind of
\* listener i succeeded.  The handler reads this.httpServer, which may by
\* now be another listener.
onListening(i) ==
    /\ srv[i].state = "binding"
    /\ \A j \in ServerIds :
          listening(j) => srv[j].lport # BoundPortFor(srv[i].lport)
    /\ LET bound == [srv EXCEPT ![i].state = "listening",
                                ![i].lport = BoundPortFor(srv[i].lport)]
           addr == IF bound[httpServer].state = "listening"
                   THEN bound[httpServer].lport ELSE Undefined
       IN IF addr = Undefined
          THEN /\ srv' = [bound EXCEPT ![i].startP = "rejected"]
               /\ last' = Event("onListening", Undefined, i, "rejected",
                                McpServerError(<<"Failed to get server address">>))
          ELSE /\ srv' = [bound EXCEPT ![i].startP = "resolved"]
               /\ last' = Event("onListening", Undefined, i, "resolved", NoErr)
    /\ UNCHANGED <<httpServer, connections, _closed, port, timers>>

\* this.httpServer.on('error', ...) of the listener i: the bind failed with
\* the transport error e.
onError(i, e) ==
    /\ srv[i].state = "binding"
    /\ srv' = [srv EXCEPT ![i].state = "bindErr", ![i].lport = Undefined,
                          ![i].startP = "rejected"]
    /\ last' = Event("onError", Undefined, i, "rejected",
                     McpServerError(<<"Server failed: ", e>>))
    /\ UNCHANGED <<httpServer, connections, _closed, port, timers>>

\* this.httpServer.on('connection', ...) of the listener i
onConnection(i) ==
    /\ listening(i)
    /\ Len(connections) < MaxConns
    /\ connections' = Append(connections, [listener |-> i, destroyed |-> 0])
    /\ last' = Event("onConnection", Undefined, i, "none", NoErr)
    /\ UNCHANGED <<httpServer, srv, _closed, port, timers>>

\* ------------------------------------------------------------------ close
\* Variants of the first test of close(): one that never short-circuits,
\* one that also treats a server that is not listening as closed.
closeAlreadyClosed_never == FALSE
closeAlreadyClosed_orIdle == _closed \/ ~(httpServer # 0 /\ listening(httpServer))

\* if (this._closed) { resolve(); return }
closeAlreadyClosed == _closed

\* if (!this.httpServer?.listening) { reject(...); return }
closeNotStarted == ~(httpServer # 0 /\ listening(httpServer))

\* for (const connection of this.connections) connection.destroy()
destroyAll(conns) ==
    [k \in 1..Len(conns) |-> [conns[k] EXCEPT !.destroyed = @ + 1]]

close ==
    IF closeAlreadyClosed
    THEN /\ last' = Event("close", Undefined, 0, "resolved", NoErr)
         /\ UNCHANGED <<httpServer, srv, connections, _closed, port, timers>>
    ELSE IF closeNotStarted
    THEN /\ last' = Event("close", Undefined, 0, "rejected",
                          McpServerError(<<"Server not started">>))
         /\ UNCHANGED <<httpServer, srv, connections, _closed, port, timers>>
    ELSE /\ connections' = destroyAll(connections)
         /\ srv' = [srv EXCEPT ![httpServer].state = "stopping",
                               ![httpServer].lport = Undefined]
         /\ last' = Event("close", Undefined, httpServer, "pending", NoErr)
         /\ UNCHANGED <<httpServer, _closed, port, timers>>

\* A variant of the close callback that marks the server closed before
\* looking at err.
closedAfterStop_always(err) == TRUE

\* this._closed after the callback of httpServer.close((err) => ...)
closedAfterStop(err) == IF err # NoErr THEN _closed ELSE TRUE

\* The callback passed to this.httpServer.close() for listener i; err is
\* NoErr when the listener stopped, the transport's error otherwise.
onClose(i, err) ==
    /\ srv[i].state = "stopping"
    /\ _closed' = closedAfterStop(err)
    /\ IF err # NoErr
       THEN /\ srv' = [srv EXCEPT ![i].state = "stopErr"]
            /\ last' = Event("onClose", Undefined, i, "rejected",
                             McpServerError(<<"Failed to close server: ">> \o err))
       ELSE /\ srv' = [srv EXCEPT ![i].state = "stopped"]
            /\ last' = Event("onClose", Undefined, i, "resolved", NoErr)
    /\ UNCHANGED <<httpServer, connections, port, timers>>

\* ------------------------------------------------------------------ tools
\* The outcome of running a handler: ok or the Error message thrown, the
\* result payload, the host calls made in order, and whether a delayed
\* follow-up was scheduled.
Outcome(ok, err, result, calls, timer) ==
    [ok |-> ok, err |-> err, result |-> result, calls |-> calls, timer |-> timer]

\* The Error message of a showInformationMessage call that fails.  Failures
\* of openChat and sendToChat are caught and logged, their messages go no
\* further.
NotificationFailed == <<"showInformationMessage failed">>

\* A variant of loadChatSession without the outer catch: a failing openChat
\* fails the handler instead of falling back to the notification.
loadChatSession_noFallback(message, h) ==
    IF h.ext
    THEN IF h.open
         THEN Outcome(TRUE, NoErr, <<>>, <<<<"openChat", "">>>>, TRUE)
         ELSE Outcome(FALSE, <<"command 'aws.amazonq.openChat' failed">>, <<>>,
                      <<<<"openChat", "">>>>, FALSE)
    ELSE Outcome(h.fb1, IF h.fb1 THEN NoErr ELSE NotificationFailed, <<>>,
                 <<<<"fallback", message>>>>, FALSE)

\* A variant of loadChatSession that awaits sendToChat instead of leaving it
\* to a timer.
loadChatSession_awaitSend(message, h) ==
    IF h.ext
    THEN IF h.open
         THEN IF h.send
              THEN Outcome(TRUE, NoErr, <<>>,
                           <<<<"openChat", "">>, <<"sendToChat", message>>>>, FALSE)
              ELSE Outcome(h.fb1, IF h.fb1 THEN NoErr ELSE NotificationFailed, <<>>,
                           <<<<"openChat", "">>, <<"sendToChat", message>>,
                             <<"fallback", message>>>>, FALSE)
         ELSE Outcome(h.fb1, IF h.fb1 THEN NoErr ELSE NotificationFailed, <<>>,
                      <<<<"openChat", "">>, <<"fallback", message>>>>, FALSE)
    ELSE IF h.fb1
         THEN Outcome(TRUE, NoErr, <<>>, <<<<"fallback", message>>>>, FALSE)
         ELSE Outcome(h.fb2, IF h.fb2 THEN NoErr ELSE NotificationFailed, <<>>,
                      <<<<"fallback", message>>, <<"fallback", message>>>>, FALSE)

\* loadChatSession(message) under the host behaviour h.  A fallback that
\* throws inside the try block is caught and the fallback runs once more.
loadChatSession(message, h) ==
    IF h.ext
    THEN IF h.open
         THEN Outcome(TRUE, NoErr, <<>>, <<<<"openChat", "">>>>, TRUE)
         ELSE Outcome(h.fb1, IF h.fb1 THEN NoErr ELSE NotificationFailed, <<>>,
                      <<<<"openChat", "">>, <<"fallback", message>>>>, FALSE)
    ELSE IF h.fb1
         THEN Outcome(TRUE, NoErr, <<>>, <<<<"fallback", message>>>>, FALSE)
         ELSE Outcome(h.fb2, IF h.fb2 THEN NoErr ELSE NotificationFailed, <<>>,
                      <<<<"fallback", message>>, <<"fallback", message>>>>, FALSE)

\* const message = (args as any)?.message || 'Hello world'
toolMessage(m) == IF m = <<>> \/ m[1] = "" THEN "Hello world" ELSE m[1]

\* The ListToolsRequestSchema handler: the static catalog.
listTools ==
    Outcome(TRUE, NoErr, <<"tools", "load_chat_session", "default", "Hello world">>,
            <<>>, FALSE)

\* A variant of the name test that lets every tool name through.
isRegistered_any(name) == TRUE

\* if (name === 'load_chat_session')
isRegistered(name) == name = "load_chat_session"

\* The CallToolRequestSchema handler.
callTool(name, m, h) ==
    IF isRegistered(name)
    THEN LET message == toolMessage(m)
             r == loadChatSession(message, h)
         IN IF r.ok
            THEN Outcome(TRUE, NoErr,
                         <<"text", "Chat session opened with message: ", message>>,
                         r.calls, r.timer)
            ELSE Outcome(FALSE,
                         McpServerError(<<"Failed to load chat session: ">> \o r.err),
                         <<>>, r.calls, r.timer)
    ELSE Outcome(FALSE, McpServerError(<<"Unknown tool: ", name>>), <<>>, <<>>, FALSE)

\* this.server.handleRequest(jsonRpcRequest): the request goes to the handler
\* registered for its method.
handleRequest(body, h) ==
    IF body.method = "tools/list" THEN listTools
    ELSE callTool(body.name, body.message, h)

\* -------------------------------------------------------------- transport
Response(status, bodyRead, error, message, result, calls) ==
    [status |-> status, cors |-> CorsHeaders, bodyRead |-> bodyRead, error |-> error,
     message |-> message, result |-> result, calls |-> calls]

\* A variant of the catch block that drops the message.
errorResponse_noMessage(msg, calls) ==
    Response(500, TRUE, "Internal server error", <<>>, <<>>, calls)

\* The catch block of the 'end' handler: the 500 response for the Error
\* message msg.
errorResponse(msg, calls) ==
    Response(500, TRUE, "Internal server error", msg, <<>>, calls)

\* JSON.parse(body) of a body that is not JSON throws a SyntaxError.
JsonSyntaxError == <<"Unexpected token in JSON">>

\* A variant of the request listener without the 405 branch: every method
\* but OPTIONS is treated as a POST.
respond_no405(method, body, h) ==
    IF method = "OPTIONS"
    THEN [res |-> Response(200, FALSE, "", <<>>, <<>>, <<>>), timer |-> FALSE]
    ELSE IF ~body.json
    THEN [res |-> errorResponse(JsonSyntaxError, <<>>), timer |-> FALSE]
    ELSE LET r == handleRequest(body, h)
         IN IF r.ok
            THEN [res |-> Response(200, TRUE, "", <<>>, r.result, r.calls),
                  timer |-> r.timer]
            ELSE [res |-> errorResponse(r.err, r.calls), timer |-> r.timer]

\* The request listener of http.createServer together with its 'end'
\* handler, for one request: the response written and the handler outcome.
respond(method, body, h) ==
    IF method = "OPTIONS"
    THEN [res |-> Response(200, FALSE, "", <<>>, <<>>, <<>>), timer |-> FALSE]
    ELSE IF method # "POST"
    THEN [res |-> Response(405, FALSE, "Method not allowed", <<>>, <<>>, <<>>),
          timer |-> FALSE]
    ELSE IF ~body.json
    THEN [res |-> errorResponse(JsonSyntaxError, <<>>), timer |-> FALSE]
    ELSE LET r == handleRequest(body, h)
         IN IF r.ok
            THEN [res |-> Response(200, TRUE, "", <<>>, r.result, r.calls),
                  timer |-> r.timer]
            ELSE [res |-> errorResponse(r.err, r.calls), timer |-> r.timer]

\* One HTTP request arriving on a live connection of the listener i.
request(i, method, body, h) ==
    /\ \E k \in 1..Len(connections) :
          connections[k].listener = i /\ connections[k].destroyed = 0
    /\ LET r == respond(method, body, h)
       IN /\ r.timer => Len(timers) < MaxTimers
          /\ timers' = IF r.timer THEN Append(timers, toolMessage(body.message))
                       ELSE timers
          /\ last' = [Event("request", Undefined, i, "responded", NoErr)
                        EXCEPT !.req = [method |-> method, body |-> body, h |-> h],
                               !.res = r.res]
    /\ UNCHANGED <<httpServer, srv, connections, _closed, port>>

\* The setTimeout callback of loadChatSession: send the message to the
\* chat, fall back to the notification when that fails.  A failing
\* fallback is an unhandled rejection of the callback and reaches nobody.
onTimeout(h) ==
    /\ timers # <<>>
    /\ timers' = Tail(timers)
    /\ LET message == Head(timers)
           calls == IF h.send THEN <<<<"sendToChat", message>>>>
                    ELSE <<<<"sendToChat", message>>, <<"fallback", message>>>>
           ok == h.send \/ h.fb1
       IN last' = [Event("onTimeout", Undefined, 0,
                         IF ok THEN "done" ELSE "unhandled",
                         IF ok THEN NoErr ELSE NotificationFailed)
                     EXCEPT !.res = [NoRes EXCEPT !.calls = calls]]
    /\ UNCHANGED <<httpServer, srv, connections, _closed, port>>

\* ------------------------------------------------------------------- spec
\* The server driven through its own interface by any caller.
Start == (\E p \in PortArgs : start(p)) /\ UNCHANGED host
OnListening == (\E i \in ServerIds : onListening(i)) /\ UNCHANGED host
OnError == (\E i \in ServerIds, e \in TransportErrors : onError(i, e))
              /\ UNCHANGED host
OnConnection == (\E i \in ServerIds : onConnection(i)) /\ UNCHANGED host
Close == close /\ UNCHANGED host
Request == (\E i \in ServerIds, r \in RequestInputs :
               request(i, r.method, r.body, r.h)) /\ UNCHANGED host
OnTimeout == (\E h \in TimerHosts : onTimeout(h)) /\ UNCHANGED host
OnClose == (\E i \in ServerIds, err \in {NoErr} \cup StopErrors : onClose(i, err))
              /\ UNCHANGED host

Next ==
    \/ Start
    \/ OnListening
    \/ OnError
    \/ OnConnection
    \/ Close
    \/ OnClose
    \/ Request
    \/ OnTimeout

Spec == Init /\ [][Next]_vars

TypeOK ==
    /\ httpServer \in 0..MaxServers
    /\ _closed \in BOOLEAN
    /\ port \in {DefaultPort, AltPort}
    /\ Len(connections) <= MaxConns
\* ------------------------------------------------------------- activation
\* settings.get('aws.mcp.port', 3000): the port the user has configured at
\* the time of the read.
SettingsPorts == {DefaultPort, AltPort}

serverVars == <<httpServer, srv, connections, _closed, port, timers, last>>

\* A command begins: h is host with the command named and its message
\* cleared.
Begin(cmd) == [host EXCEPT !.cmd = cmd, !.pc = "idle", !.wait = 0,
                           !.note = "", !.err = NoErr]

\* The command's message is shown and the command ends.
Shown(h, note, err) == [h EXCEPT !.pc = "idle", !.wait = 0,
                                 !.note = note, !.err = err]

\* if (mcpServer && !mcpServer.closed)
running == host.mcpServer /\ ~closed

\* What follows `await mcpServer.start(...)` in the command h.cmd: the
\* rest of activate() registers the commands, its catch shows the warning
\* with 'Retry'; the rest of the restart command shows its message.
startSettled(h, ok, err) ==
    IF h.cmd = "activate"
    THEN IF ok
         THEN [Shown(h, "started", NoErr) EXCEPT !.registered = TRUE]
         ELSE [Shown(h, "startFailed", err) EXCEPT !.retry = TRUE]
    ELSE IF ok THEN Shown(h, "restarted", NoErr)
         ELSE Shown(h, "restartFailed", err)

\* What follows `await mcpServer.close()` in the command h.cmd.
closeSettled(h, ok, err) ==
    IF h.cmd = "restart"
    THEN IF ok THEN [h EXCEPT !.pc = "closed", !.wait = 0]
         ELSE Shown(h, "restartFailed", err)
    ELSE IF h.cmd = "stop"
    THEN IF ok THEN Shown(h, "stopped", NoErr)
         ELSE Shown(h, "stopFailed", err)
    ELSE IF ok THEN Shown(h, "deactivated", NoErr)
         ELSE Shown(h, "deactivateFailed", err)

\* await mcpServer.start(p) inside the command h.cmd: the call, and the
\* command either waiting for the bind or in its catch block.
awaitStart(h, p) ==
    /\ start(p)
    /\ host' = IF last'.outcome = "pending"
               THEN [h EXCEPT !.pc = "awaitStart", !.wait = httpServer']
               ELSE startSettled(h, FALSE, last'.err)

\* await mcpServer.close() inside the command h.cmd.
awaitClose(h) ==
    /\ close
    /\ host' = IF last'.outcome = "pending"
               THEN [h EXCEPT !.pc = "awaitClose", !.wait = httpServer]
               ELSE closeSettled(h, last'.outcome = "resolved", last'.err)

\* activate(context) up to its first await.
activate(mcpEnabled, mcpPort) ==
    /\ host.cmd = "none"
    /\ IF ~mcpEnabled
       THEN /\ host' = Shown(Begin("activate"), "disabled", NoErr)
            /\ UNCHANGED serverVars
       ELSE awaitStart([Begin("activate") EXCEPT !.mcpServer = TRUE], mcpPort)

\* The handler of 'aws.mcp.restart' up to its first await, run from h.
restartCommand(h) ==
    IF running
    THEN awaitClose(h)
    ELSE \E newPort \in SettingsPorts : awaitStart(h, newPort)

\* The handler of 'aws.mcp.restart' after its close() has resolved.
restartStart ==
    /\ host.cmd = "restart" /\ host.pc = "closed"
    /\ \E newPort \in SettingsPorts : awaitStart(host, newPort)

\* The handler of 'aws.mcp.stop'.
stopCommand ==
    IF running
    THEN awaitClose(Begin("stop"))
    ELSE /\ host' = Shown(Begin("stop"), "notRunning", NoErr)
         /\ UNCHANGED serverVars

\* The handler of 'aws.mcp.status'.
statusCommand ==
    /\ host' = Shown(Begin("status"),
                     IF running THEN "running" ELSE "notRunning", NoErr)
    /\ UNCHANGED serverVars

\* deactivate()
deactivate ==
    IF running
    THEN awaitClose(Begin("deactivate"))
    ELSE /\ host' = Shown(Begin("deactivate"), "deactivated", NoErr)
         /\ UNCHANGED serverVars

\* The user answers the warning of the catch block of activate() with
\* 'Retry': vscode.commands.executeCommand('aws.mcp.restart'), which runs
\* the handler when one is registered and is rejected otherwise.
retry ==
    /\ host.retry
    /\ IF host.registered
       THEN restartCommand([Begin("restart") EXCEPT !.retry = FALSE])
       ELSE /\ host' = [Shown(Begin("retry"), "commandNotFound",
                              <<"command 'aws.mcp.restart' not found">>)
                          EXCEPT !.retry = FALSE]
            /\ UNCHANGED serverVars

\* The user closes the warning without choosing 'Retry'.
dismiss ==
    /\ host.retry
    /\ host' = [host EXCEPT !.retry = FALSE]
    /\ UNCHANGED serverVars

\* A command can be invoked: none is in flight and the extension has not
\* been deactivated.
Idle == host.pc = "idle" /\ host.cmd \notin {"none", "deactivate"}

\* The transport runs an event only between the jobs of the host.
Yielded == host.pc # "closed"

Activate == \E mcpEnabled \in BOOLEAN, mcpPort \in SettingsPorts :
               activate(mcpEnabled, mcpPort)
Restart == Idle /\ host.registered /\ restartCommand(Begin("restart"))
RestartStart == restartStart
Stop == Idle /\ host.registered /\ stopCommand
Status == Idle /\ host.registered /\ statusCommand
Deactivate == Idle /\ deactivate
Retry == Idle /\ retry
Dismiss == Idle /\ dismiss

\* The 'listening' event of a listener, and the command awaiting it.
HostOnListening ==
    /\ Yielded
    /\ \E i \in ServerIds :
          /\ onListening(i)
          /\ host' = IF host.pc = "awaitStart" /\ host.wait = i
                     THEN startSettled(host, last'.outcome = "resolved", last'.err)
                     ELSE host

\* The 'error' event of a listener, and the command awaiting it.
HostOnError ==
    /\ Yielded
    /\ \E i \in ServerIds, e \in TransportErrors :
          /\ onError(i, e)
          /\ host' = IF host.pc = "awaitStart" /\ host.wait = i
                     THEN startSettled(host, FALSE, last'.err)
                     ELSE host

\* The stop callback of a listener, and the command awaiting it.
HostOnClose ==
    /\ Yielded
    /\ \E i \in ServerIds, err \in {NoErr} \cup StopErrors :
          /\ onClose(i, err)
          /\ host' = IF host.pc = "awaitClose" /\ host.wait = i
                     THEN closeSettled(host, last'.outcome = "resolved", last'.err)
                     ELSE host

HostOnConnection == Yielded /\ OnConnection

\* The server driven by activation.ts alone, one command at a time.
HostNext ==
    \/ Activate
    \/ Restart
    \/ RestartStart
    \/ Stop
    \/ Status
    \/ Deactivate
    \/ Retry
    \/ Dismiss
    \/ HostOnListening
    \/ HostOnError
    \/ HostOnClose
    \/ HostOnConnection

HostSpec == Init /\ [][HostNext]_vars

\* ============================================================ properties
\* What a caller can observe, stated on the state itself.
Active == httpServer # 0 /\ srv[httpServer].state = "listening"
SomeCloseSucceeded == \E j \in ServerIds : srv[j].state = "stopped"
NeverStarted == \A j \in ServerIds : srv[j].state \in {"none", "binding", "bindErr"}
StartStep == last'.op = "start"
CloseStep == last'.op = "close"
AlreadyListening == McpServerError(<<"Server already started">>)
NotStarted == McpServerError(<<"Server not started">>)

\* C1 (restart property): a start() issued after a successful close()
\* resolves when its bind is confirmed, and the server is then observably
\* Listening again: the listener is active and `closed` reads false.
C1_RestartListeningAgain ==
    [][(/\ SomeCloseSucceeded
        /\ last.op = "start" /\ last.outcome = "pending"
        /\ last'.op = "onListening" /\ last'.srv = last.srv)
          => (last'.outcome = "resolved" /\ Active' /\ ~closed')]_vars

\* C2: a close() called while the listener is active (here: a listener
\* started after an earlier close() had completed), once it has resolved,
\* has destroyed every tracked connection and stopped the listener: the
\* listener is not active.  A close() resolves either at once or when the
\* stop it requested is confirmed.
C2_ResolvedCloseStopsListener ==
    [][(\/ /\ Active /\ srv[httpServer].afterClose
           /\ CloseStep /\ last'.outcome = "resolved"
        \/ /\ last.op = "close" /\ last.outcome = "pending"
           /\ last'.op = "onClose" /\ last'.outcome = "resolved"
           /\ last'.srv = last.srv)
          => (/\ ~Active'
              /\ \A k \in 1..Len(connections') : connections'[k].destroyed >= 1)]_vars

\* C3: a start() issued while the listener is active fails with 'Server
\* already started' and leaves the listener, its bound port, the configured
\* port and getPort() as they were.
C3_SecondStartRejected ==
    [][(Active /\ StartStep)
          => (/\ last'.outcome = "threw"
              /\ last'.err = AlreadyListening
              /\ port' = port
              /\ httpServer' = httpServer
              /\ srv' = srv
              /\ getPort' = getPort
              /\ getPort' = srv[httpServer].lport)]_vars

\* C3 witness: a start on another port than the bound one was rejected.
C3_Witness ==
    /\ last.op = "start" /\ last.outcome = "threw"
    /\ Active
    /\ last.arg \notin {Undefined, 0, getPort}

\* C4: once a close() has resolved successfully, every further close()
\* resolves, destroys no connection again and stops no listener again.
C4_CloseIdempotent ==
    [][(SomeCloseSucceeded /\ CloseStep)
          => (/\ last'.outcome = "resolved"
              /\ connections' = connections
              /\ srv' = srv
              /\ _closed' = _closed)]_vars

\* C4 witness: a repeated close() resolved and the connection destroyed by
\* the first close() was destroyed exactly once.
C4_Witness ==
    /\ last.op = "close" /\ last.outcome = "resolved"
    /\ ~Active
    /\ \E k \in 1..Len(connections) : connections[k].destroyed = 1

\* C5: close() on a server that never had a successful start is rejected
\* with 'Server not started' and changes nothing: `closed` stays false and
\* a later start() is not rejected.
C5_CloseBeforeStartRejected ==
    [][(NeverStarted /\ CloseStep)
          => (/\ last'.outcome = "rejected"
              /\ last'.err = NotStarted
              /\ ~closed'
              /\ ~Active'
              /\ UNCHANGED <<httpServer, srv, connections, _closed, port>>)]_vars

\* C5 witness: close() was rejected after a failed bind attempt.
C5_Witness ==
    /\ last.op = "close" /\ last.outcome = "rejected"
    /\ NeverStarted
    /\ \E j \in ServerIds : srv[j].state = "bindErr"
\* C6: within one close() every tracked connection is destroyed before the
\* listener is asked to stop and `closed` is not yet set by that step;
\* `closed` becomes true only in the step where a listener confirms a
\* successful stop; when a listener reports an error while stopping, that
\* close() rejects with 'Failed to close server: <error>' and `closed`
\* keeps its value, so a false `closed` remains false.
C6_ShutdownOrdering ==
    [][/\ (\E i \in ServerIds : srv[i].state = "listening" /\ srv'[i].state = "stopping")
          => (/\ \A k \in 1..Len(connections') : connections'[k].destroyed >= 1
              /\ _closed' = _closed)
       /\ (~_closed /\ _closed')
          => (/\ last'.op = "onClose" /\ last'.outcome = "resolved"
              /\ srv[last'.srv].state = "stopping"
              /\ srv'[last'.srv].state = "stopped")
       /\ (\E i \in ServerIds : srv[i].state = "stopping" /\ srv'[i].state = "stopErr")
          => (/\ last'.op = "onClose" /\ last'.outcome = "rejected"
              /\ \E e \in StopErrors :
                    last'.err = McpServerError(<<"Failed to close server: ">> \o e)
              /\ _closed' = _closed)]_vars

\* C6 witness: a stop failed after the tracked connection was destroyed,
\* and `closed` is still false.
C6_Witness ==
    /\ last.op = "onClose" /\ last.outcome = "rejected"
    /\ srv[last.srv].state = "stopErr"
    /\ \E k \in 1..Len(connections) : connections[k].destroyed >= 1
    /\ ~closed

\* C7: when the bind of the current listener fails (here: of a listener
\* whose start() was called after an earlier close() had completed),
\* start() is rejected with an error carrying the transport error message
\* and is never resolved; afterwards the listener is not active, `closed`
\* is false and a later start() is not rejected as AlreadyListening.
C7_BindFailure ==
    (last.op = "onError" /\ last.srv = httpServer /\ srv[last.srv].afterClose)
        => (/\ last.outcome = "rejected"
            /\ \E e \in TransportErrors : last.err[Len(last.err)] = e
            /\ srv[last.srv].startP = "rejected"
            /\ ~Active
            /\ ~closed)

\* C8: start(port) asks for a bind on exactly the port passed, 0 included;
\* the configured port is used only when the argument is omitted.
C8_BindsGivenPort ==
    [][(StartStep /\ last'.outcome = "pending")
          => srv'[last'.srv].lport =
                (IF last'.arg = Undefined THEN port ELSE last'.arg)]_vars

\* C9: no connection accepted under a listener that has since been closed
\* is still tracked once a start() called after that close() has installed
\* a new listener.
C9_TrackedOnlyCurrentListener ==
    \A k \in 1..Len(connections) :
        (/\ srv[connections[k].listener].state = "stopped"
         /\ httpServer # 0 /\ srv[httpServer].afterClose)
            => connections[k].listener = httpServer

\* Which requests fail: a POST whose body is not JSON, names no registered
\* tool, or whose tool handler fails (its last notification attempt fails).
UnknownTool(q) == q.body.json /\ q.body.method = "tools/call"
                    /\ q.body.name # "load_chat_session"
HandlerFails(q) ==
    /\ q.body.json /\ q.body.method = "tools/call"
    /\ q.body.name = "load_chat_session"
    /\ \/ q.h.ext /\ ~q.h.open /\ ~q.h.fb1
       \/ ~q.h.ext /\ ~q.h.fb1 /\ ~q.h.fb2
RequestFails(q) ==
    q.method = "POST" /\ (~q.body.json \/ UnknownTool(q) \/ HandlerFails(q))

\* C10: a POST whose body is not JSON, and every other failing request, is
\* answered 500 with error 'Internal server error' and a message; no host
\* call is made for invalid JSON or an unknown tool; and the request leaves
\* the server as it was: the listener stays listening, `closed` keeps its
\* value and the connection stays usable.
C10_BadRequestKeepsServing ==
    [][(last'.op = "request")
          => (/\ RequestFails(last'.req)
                 => (/\ last'.res.status = 500
                     /\ last'.res.error = "Internal server error"
                     /\ last'.res.message # <<>>
                     /\ last'.res.result = <<>>)
              /\ (~last'.req.body.json \/ UnknownTool(last'.req))
                 => last'.res.calls = <<>>
              /\ UNCHANGED <<httpServer, srv, connections, _closed, port>>
              /\ Active => Active'
              /\ ~closed => ~closed')]_vars

\* C10 witness: invalid JSON was answered 500 while the server is
\* listening and not closed.
C10_Witness ==
    /\ last.op = "request" /\ last.req.method = "POST" /\ ~last.req.body.json
    /\ last.res.status = 500
    /\ Active /\ ~closed
\* C11: an OPTIONS request is answered 200 with an empty body and the three
\* CORS headers; any other method than POST and OPTIONS is answered 405
\* with error 'Method not allowed'; in both cases no body is read, nothing
\* is dispatched, no host call is made and no follow-up is scheduled.  Only
\* a POST produces a dispatch result or a host call.
C11_MethodRouting ==
    [][(last'.op = "request")
          => (/\ last'.res.cors = CorsHeaders /\ Cardinality(last'.res.cors) = 3
              /\ last'.req.method = "OPTIONS"
                 => (/\ last'.res.status = 200
                     /\ last'.res.error = "" /\ last'.res.message = <<>>)
              /\ last'.req.method \notin {"POST", "OPTIONS"}
                 => (/\ last'.res.status = 405
                     /\ last'.res.error = "Method not allowed")
              /\ last'.req.method # "POST"
                 => (/\ ~last'.res.bodyRead
                     /\ last'.res.result = <<>>
                     /\ last'.res.calls = <<>>
                     /\ timers' = timers)
              /\ (last'.res.result # <<>> \/ last'.res.calls # <<>>
                    \/ last'.res.bodyRead)
                 => last'.req.method = "POST")]_vars

\* C11 witness: a GET was answered 405 without reading a body.
C11_Witness ==
    /\ last.op = "request" /\ last.req.method = "GET"
    /\ last.res.status = 405 /\ ~last.res.bodyRead
\* A POST that calls the tool load_chat_session.
LoadCall(q) ==
    /\ q.method = "POST" /\ q.body.json /\ q.body.method = "tools/call"
    /\ q.body.name = "load_chat_session"

\* The text the caller supplied, 'Hello world' when it supplied none.
SuppliedOrDefault(m) == IF m = <<>> THEN "Hello world" ELSE m[1]

\* C12: load_chat_session hands the opener 'Hello world' when
\* arguments.message is absent and exactly the supplied text whenever one
\* is supplied, the empty string included: every notification shown, the
\* text scheduled for the chat and the summary carry that text.
C12_DefaultOnlyWhenMissing ==
    [][(last'.op = "request" /\ LoadCall(last'.req))
          => LET text == SuppliedOrDefault(last'.req.body.message)
             IN /\ \A k \in 1..Len(last'.res.calls) :
                      last'.res.calls[k][1] = "fallback"
                         => last'.res.calls[k][2] = text
                /\ Len(timers') > Len(timers)
                      => timers'[Len(timers')] = text
                /\ last'.res.status = 200 => last'.res.result[3] = text]_vars

\* C13: a call_tool naming a tool that is not registered is answered with
\* the error 'Unknown tool: <name>', whose message contains the name, and
\* invokes no handler: no host call is made and nothing is scheduled.
C13_UnknownTool ==
    [][(last'.op = "request" /\ last'.req.method = "POST"
          /\ UnknownTool(last'.req))
          => (/\ last'.res.status = 500
              /\ last'.res.message = <<"MCP Server: ", "Unknown tool: ",
                                       last'.req.body.name>>
              /\ \E k \in 1..Len(last'.res.message) :
                    last'.res.message[k] = last'.req.body.name
              /\ last'.res.result = <<>>
              /\ last'.res.calls = <<>>
              /\ timers' = timers)]_vars

\* C13 witness: a call of no_such_tool was answered with the error.
C13_Witness ==
    /\ last.op = "request" /\ UnknownTool(last.req)
    /\ last.req.body.name = "no_such_tool"
    /\ last.res.status = 500 /\ last.res.calls = <<>>

\* C14: load_chat_session fails exactly when the last fallback notification
\* fails; the failure is answered with 'MCP Server: Failed to load chat
\* session: <original message>' and no success payload; a failing openChat
\* whose fallback succeeds is answered with the success payload.
C14_HandlerFailure ==
    [][(last'.op = "request" /\ LoadCall(last'.req))
          => (/\ HandlerFails(last'.req) <=> last'.res.status = 500
              /\ ~HandlerFails(last'.req) <=> last'.res.status = 200
              /\ last'.res.status = 500
                 => (/\ last'.res.message
                           = <<"MCP Server: ", "Failed to load chat session: ">>
                                \o NotificationFailed
                     /\ last'.res.result = <<>>
                     /\ last'.res.calls[Len(last'.res.calls)][1] = "fallback")
              /\ last'.res.status = 200
                 => (/\ last'.res.result # <<>> /\ last'.res.message = <<>>)
              /\ (last'.req.h.ext /\ ~last'.req.h.open /\ last'.req.h.fb1)
                 => last'.res.status = 200)]_vars

\* C14 witness: openChat failed and the fallback succeeded, and the call
\* was answered with the success payload.
C14_Witness ==
    /\ last.op = "request" /\ LoadCall(last.req)
    /\ last.req.h.ext /\ ~last.req.h.open /\ last.req.h.fb1
    /\ last.res.status = 200 /\ last.res.result # <<>>

\* C15: with the chat extension available and openChat succeeding, the
\* call is answered 200 while its follow-up is still pending; and the
\* follow-up, whatever its outcome, writes no response, rejects nothing
\* and leaves the server as it was.
C15_FollowUpDetached ==
    [][/\ (last'.op = "request" /\ LoadCall(last'.req)
             /\ last'.req.h.ext /\ last'.req.h.open)
          => (/\ last'.res.status = 200
              /\ Len(timers') = Len(timers) + 1)
       /\ (last'.op = "onTimeout")
          => (/\ last'.res.status = 0 /\ last'.res.message = <<>>
              /\ last'.outcome \in {"done", "unhandled"}
              /\ last'.outcome = "unhandled" <=> last'.err # NoErr
              /\ Len(timers') = Len(timers) - 1
              /\ UNCHANGED <<httpServer, srv, connections, _closed, port>>)]_vars

\* C15 witness: the success response has been given and the follow-up has
\* not run yet.
C15_Witness ==
    /\ last.op = "request" /\ LoadCall(last.req)
    /\ last.req.h.ext /\ last.req.h.open
    /\ last.res.status = 200 /\ timers # <<>>
\* The listener this.httpServer refers to is in the state st.
Current(st) == httpServer # 0 /\ srv[httpServer].state = st

\* The listeners that are bound or binding.
BoundOrBinding == {j \in ServerIds : srv[j].state \in {"binding", "listening"}}

\* C16: at most one listener is bound or binding: a start() issued before
\* the bind of an earlier start() is confirmed throws 'Server already
\* started', creates no listener and keeps the listener reference.
C16_SingleListener ==
    [][(Current("binding") /\ StartStep)
          => (/\ last'.outcome = "threw"
              /\ last'.err = AlreadyListening
              /\ srv' = srv
              /\ httpServer' = httpServer
              /\ Cardinality(BoundOrBinding') <= 1)]_vars

\* C17: a close() issued while an earlier close() awaits the stop
\* confirmation is not rejected: it never fails with 'Server not started'.
C17_OverlappingClose ==
    [][(Current("stopping") /\ ~_closed /\ CloseStep)
          => (/\ last'.outcome # "rejected"
              /\ last'.err # NotStarted)]_vars
\* The restart command is invoked in this step.
RestartInvoked == host.pc = "idle" /\ host'.cmd = "restart" /\ host' # host

\* C18: a restart command invoked while the listener is active closes that
\* listener before it starts a new one, at every invocation: it never runs
\* into 'Server already started'.
C18_RestartEveryTime ==
    [][(RestartInvoked /\ Active)
          => (/\ last'.op = "close" /\ last'.outcome = "pending"
              /\ host'.note # "restartFailed"
              /\ host'.err # AlreadyListening)]_vars

\* C19: once deactivate() or the stop command has ended without an error,
\* whether it closed the server or found it 'not running', no listener is
\* active.
C19_StoppedMeansInactive ==
    (/\ host.pc = "idle"
     /\ host.cmd \in {"stop", "deactivate"}
     /\ host.note \in {"stopped", "notRunning", "deactivated"})
       => \A j \in ServerIds : srv[j].state # "listening"

\* 'Retry' is chosen in this step.
RetryChosen == host.retry /\ ~host'.retry /\ host'.cmd \in {"retry", "restart"}

\* C20: when the start() of activate() has failed and the user chooses
\* 'Retry', the restart command is registered and runs, and it is not
\* stopped by 'Server not started' before a new start().
C20_RetryRuns ==
    [][RetryChosen
          => (/\ host.registered
              /\ host'.cmd = "restart"
              /\ host'.err # NotStarted)]_vars
====
